---- MODULE Spec2Model ----
(***************************************************************************)
(* Typed event wrappers of evdev (src/event_variants.rs): the thirteen     *)
(* newtypes generated by input_event_newtype!, OtherEvent, their           *)
(* constructors, the crate-internal narrowing from_raw / from_event, the   *)
(* widening From<$name> for InputEvent and the conversion to EventSummary. *)
(* The classifier From<InputEvent> for EventSummary, the InputEvent        *)
(* accessors, the EventType registry and systime_to_timeval live in other  *)
(* files of the crate and are modelled from the specification.             *)
(***************************************************************************)
EXTENDS Integers, Sequences, FiniteSets, TLC

VARIABLES
    val,       \* the value the application holds: a RawEvent, a wrapper, an
               \* EventSummary, nothing, or the panic of unreachable!()
    arg,       \* the operand of the latest operation
    op,        \* the latest operation
    origin,    \* the received event or the constructor arguments val derives from
    out,       \* what kind() or destructure() returned last
    clock,     \* SystemTime::now(), in microseconds since the epoch
    elapsed,   \* microseconds the clock advanced since the start
    before,    \* the timestamp sampled right before the latest new_now
    after,     \* the timestamp sampled right after the latest new_now
    panicked   \* unreachable!() was reached

vars == <<val, arg, op, origin, out, clock, elapsed, before, after, panicked>>

(* ------------------------------ bounds --------------------------------- *)

\* codes 0..MaxCode are enumerated besides the codes of the scenarios
MaxCode == 0
\* values -MaxValue..MaxValue are enumerated besides the largest i32
MaxValue == 1
\* microseconds the wall clock may advance in total
MaxElapsed == 3
\* microseconds that may pass between two consecutive clock samples
MaxDelay == 2

(* --------------------------- field widths ------------------------------ *)

\* type_ and code are u16
MaxU16 == 65535
\* value is i32
MaxI32 == 2147483647
\* microseconds per second of a timeval
UsecPerSec == 1000000

(* ------------------------ the EventType registry ----------------------- *)

\* EventType::<NAME>.0, the reserved type tags
EventTypeValue ==
    [ SYNCHRONIZATION     |-> 0,
      KEY                 |-> 1,
      RELATIVE            |-> 2,
      ABSOLUTE            |-> 3,
      MISC                |-> 4,
      SWITCH              |-> 5,
      LED                 |-> 17,
      SOUND               |-> 18,
      REPEAT              |-> 20,
      FORCEFEEDBACK       |-> 21,
      POWER               |-> 22,
      FORCEFEEDBACKSTATUS |-> 23,
      UINPUT              |-> 257 ]

(* ------------------- the macro invocations (174-226) ------------------- *)

\* the mutant: FFStatusEvent registered with FFEvent's summary case
Invocations_dupcase ==
    << [name |-> "SynchronizationEvent", evdev_type |-> "SYNCHRONIZATION",
        kind |-> "SynchronizationType", summary |-> "Synchronization"],
       [name |-> "KeyEvent", evdev_type |-> "KEY",
        kind |-> "KeyType", summary |-> "Key"],
       [name |-> "RelativeAxisEvent", evdev_type |-> "RELATIVE",
        kind |-> "RelativeAxisType", summary |-> "RelativeAxis"],
       [name |-> "AbsoluteAxisEvent", evdev_type |-> "ABSOLUTE",
        kind |-> "AbsoluteAxisType", summary |-> "AbsoluteAxis"],
       [name |-> "MiscEvent", evdev_type |-> "MISC",
        kind |-> "MiscType", summary |-> "Misc"],
       [name |-> "SwitchEvent", evdev_type |-> "SWITCH",
        kind |-> "SwitchType", summary |-> "Switch"],
       [name |-> "LedEvent", evdev_type |-> "LED",
        kind |-> "LedType", summary |-> "Led"],
       [name |-> "SoundEvent", evdev_type |-> "SOUND",
        kind |-> "SoundType", summary |-> "Sound"],
       [name |-> "RepeatEvent", evdev_type |-> "REPEAT",
        kind |-> "RepeatType", summary |-> "Repeat"],
       [name |-> "FFEvent", evdev_type |-> "FORCEFEEDBACK",
        kind |-> "FFEffectType", summary |-> "ForceFeedback"],
       [name |-> "PowerEvent", evdev_type |-> "POWER",
        kind |-> "PowerType", summary |-> "Power"],
       [name |-> "FFStatusEvent", evdev_type |-> "FORCEFEEDBACKSTATUS",
        kind |-> "FFStatusType", summary |-> "ForceFeedback"],
       [name |-> "UInputEvent", evdev_type |-> "UINPUT",
        kind |-> "UInputType", summary |-> "UInput"] >>

\* input_event_newtype!($name, $evdev_type, $kind, $summary), in source order
Invocations ==
    << [name |-> "SynchronizationEvent", evdev_type |-> "SYNCHRONIZATION",
        kind |-> "SynchronizationType", summary |-> "Synchronization"],
       [name |-> "KeyEvent", evdev_type |-> "KEY",
        kind |-> "KeyType", summary |-> "Key"],
       [name |-> "RelativeAxisEvent", evdev_type |-> "RELATIVE",
        kind |-> "RelativeAxisType", summary |-> "RelativeAxis"],
       [name |-> "AbsoluteAxisEvent", evdev_type |-> "ABSOLUTE",
        kind |-> "AbsoluteAxisType", summary |-> "AbsoluteAxis"],
       [name |-> "MiscEvent", evdev_type |-> "MISC",
        kind |-> "MiscType", summary |-> "Misc"],
       [name |-> "SwitchEvent", evdev_type |-> "SWITCH",
        kind |-> "SwitchType", summary |-> "Switch"],
       [name |-> "LedEvent", evdev_type |-> "LED",
        kind |-> "LedType", summary |-> "Led"],
       [name |-> "SoundEvent", evdev_type |-> "SOUND",
        kind |-> "SoundType", summary |-> "Sound"],
       [name |-> "RepeatEvent", evdev_type |-> "REPEAT",
        kind |-> "RepeatType", summary |-> "Repeat"],
       [name |-> "FFEvent", evdev_type |-> "FORCEFEEDBACK",
        kind |-> "FFEffectType", summary |-> "ForceFeedback"],
       [name |-> "PowerEvent", evdev_type |-> "POWER",
        kind |-> "PowerType", summary |-> "Power"],
       [name |-> "FFStatusEvent", evdev_type |-> "FORCEFEEDBACKSTATUS",
        kind |-> "FFStatusType", summary |-> "ForceFeedbackStatus"],
       [name |-> "UInputEvent", evdev_type |-> "UINPUT",
        kind |-> "UInputType", summary |-> "UInput"] >>

\* the typed wrapper types, $name
Names == { Invocations[i].name : i \in 1..Len(Invocations) }

\* the macro arguments bound to wrapper type n
Invocation(n) == Invocations[CHOOSE i \in 1..Len(Invocations) : Invocations[i].name = n]

\* $evdev_type.0 of wrapper type n
evdev_type(n) == EventTypeValue[Invocation(n).evdev_type]

(* ------------------------------ values --------------------------------- *)

Codes == (0..MaxCode) \cup {5, 30}
Values == ((-MaxValue)..MaxValue) \cup {MaxI32}
\* every reserved tag, and tags no class reserves
ReservedTags == { evdev_type(n) : n \in Names }
Tags == ReservedTags \cup {6, 31, 9999, MaxU16}

\* libc::timeval { tv_sec: 0, tv_usec: 0 }
ZeroTime == [tv_sec |-> 0, tv_usec |-> 0]

\* the tuple struct $kind(code)
Kind(k, code) == [kind |-> k, code |-> code]

\* the tuple struct OtherType(type, code)
OtherType(t, code) == [kind |-> "OtherType", type_ |-> t, code |-> code]

\* the kinds an application can pass to $name::new
KindsOf(n) == { Kind(Invocation(n).kind, c) : c \in Codes }

None == [t |-> "none"]
\* the unwinding of unreachable!()
Unreachable == [t |-> "panic"]


(* ------------------- InputEvent and its accessors ---------------------- *)

\* InputEvent(input_event { time, type_, code, value })
InputEvent(time, t, c, v) == [time |-> time, type_ |-> t, code |-> c, value |-> v]

\* InputEvent::event_type(), the tag inside EventType
event_type(ev) == ev.type_
\* InputEvent::code()
code(ev) == ev.code
\* InputEvent::value()
value(ev) == ev.value
\* InputEvent::timestamp(), kept as the timeval
timestamp(ev) == ev.time

\* systime_to_timeval: whole seconds and the microseconds within the second
systime_to_timeval(now) == [tv_sec |-> now \div UsecPerSec, tv_usec |-> now % UsecPerSec]

\* a RawEvent in the application's hands
Raw(ev) == [t |-> "raw", ev |-> ev]
\* the tuple struct $name(InputEvent)
Wrap(n, ev) == [t |-> "wrapper", name |-> n, ev |-> ev]

(* -------------------- impl $name (lines 110-152) ----------------------- *)

\* the mutant: the match arm compares the code with the class tag
from_raw_codearm(n, raw) ==
    IF raw.code = evdev_type(n) THEN Wrap(n, raw) ELSE Unreachable

\* fn from_raw(raw: input_event) -> Self
from_raw(n, raw) ==
    IF raw.type_ = evdev_type(n) THEN Wrap(n, raw) ELSE Unreachable

\* the mutant: the narrowing keeps any event
from_event_unchecked(n, event) == Wrap(n, event)

\* pub(crate) fn from_event(event: InputEvent) -> Self
from_event(n, event) ==
    IF event_type(event) = evdev_type(n) THEN Wrap(n, event) ELSE Unreachable

\* the mutant: the code of the kind is dropped
new_nocode(n, k, v) ==
    from_raw(n, InputEvent(ZeroTime, evdev_type(n), 0, v))

\* pub fn new($kind(code): $kind, value: i32) -> Self
new(n, k, v) ==
    from_raw(n, InputEvent(ZeroTime, evdev_type(n), k.code, v))

\* the mutant: the body of new, the clock never read
new_now_zero(n, k, v, now) ==
    from_raw(n, InputEvent(ZeroTime, evdev_type(n), k.code, v))

\* pub fn new_now($kind(code): $kind, value: i32) -> Self, now = SystemTime::now()
new_now(n, k, v, now) ==
    from_raw(n, InputEvent(systime_to_timeval(now), evdev_type(n), k.code, v))

\* pub fn kind(&self) -> $kind
kind(w) == Kind(Invocation(w.name).kind, code(w.ev))

\* the mutant: the value is not read
destructure_novalue(w) == <<Kind(Invocation(w.name).kind, code(w.ev)), 0>>

\* pub fn destructure(&self) -> ($kind, i32)
destructure(w) == <<Kind(Invocation(w.name).kind, code(w.ev)), value(w.ev)>>

(* ------------- conversions of the typed wrappers (96-101, 164-169) ----- *)

\* the mutant: the timestamp is not carried over
widen_notime(w) == InputEvent(ZeroTime, w.ev.type_, w.ev.code, w.ev.value)

\* impl From<$name> for InputEvent, also for OtherEvent
widen(w) == w.ev

\* the mutant: the value of the case is not the value of the event
to_summary_novalue(w) ==
    LET d == destructure(w)
    IN  [t |-> "summary", case |-> Invocation(w.name).summary,
         event |-> w, kind |-> d[1], value |-> 0]

\* the mutant: the kind is not decoded from the code of the event
to_summary_defaultkind(w) ==
    [t |-> "summary", case |-> Invocation(w.name).summary,
     event |-> w, kind |-> Kind(Invocation(w.name).kind, 0), value |-> value(w.ev)]

\* impl From<$name> for EventSummary
to_summary(w) ==
    LET d == destructure(w)
    IN  [t |-> "summary", case |-> Invocation(w.name).summary,
         event |-> w, kind |-> d[1], value |-> d[2]]

(* ------------------------ OtherEvent (229-242) ------------------------- *)

\* the tuple struct OtherEvent(InputEvent)
OtherEvent(ev) == Wrap("OtherEvent", ev)

\* the mutant: tag and code in the wrong order
other_kind_swapped(w) == OtherType(code(w.ev), event_type(w.ev))

\* OtherEvent::kind
other_kind(w) == OtherType(event_type(w.ev), code(w.ev))

\* OtherEvent::destructure
other_destructure(w) == <<other_kind(w), value(w.ev)>>

\* impl From<OtherEvent> for EventSummary
other_to_summary(w) ==
    LET d == other_destructure(w)
    IN  [t |-> "summary", case |-> "Other", event |-> w, kind |-> d[1], value |-> d[2]]

(* ------------------------- the classifier ------------------------------ *)

\* the match arms whose EventType pattern equals the tag of ev, in order
Arms(ev) == { i \in 1..Len(Invocations) :
                EventTypeValue[Invocations[i].evdev_type] = event_type(ev) }

\* impl From<InputEvent> for EventSummary: the first matching arm narrows with
\* from_event and converts, the wildcard arm wraps in OtherEvent
classify(ev) ==
    IF Arms(ev) # {}
    THEN LET i == CHOOSE i \in Arms(ev) : \A j \in Arms(ev) : i <= j
             w == from_event(Invocations[i].name, ev)
         IN  IF w.t = "panic" THEN Unreachable ELSE to_summary(w)
    ELSE other_to_summary(OtherEvent(ev))

\* kind(), destructure() and into() by the type of the wrapper
KindOf(w) == IF w.name = "OtherEvent" THEN other_kind(w) ELSE kind(w)
DestructureOf(w) == IF w.name = "OtherEvent" THEN other_destructure(w) ELSE destructure(w)
SummaryOf(w) == IF w.name = "OtherEvent" THEN other_to_summary(w) ELSE to_summary(w)

(* ------------------------------ state ---------------------------------- *)

\* the events an external producer can hand over: any tag, code, value, time
ReceivedTimes == {ZeroTime, [tv_sec |-> 1, tv_usec |-> UsecPerSec - 1]}
RawEvents == { InputEvent(tm, t, c, v) : tm \in ReceivedTimes, t \in Tags, c \in Codes, v \in Values }

\* the wall clock in microseconds since the epoch, just before a full second
ClockStarts == {UsecPerSec - 1}

Init ==
    /\ val = None
    /\ arg = None
    /\ op = "init"
    /\ origin = None
    /\ out = None
    /\ clock \in ClockStarts
    /\ elapsed = 0
    /\ before = None
    /\ after = None
    /\ panicked = FALSE

\* the application obtains a RawEvent from outside the crate
Receive(ev) ==
    /\ ~panicked
    /\ val.t = "none"
    /\ val' = Raw(ev)
    /\ arg' = None
    /\ op' = "receive"
    /\ origin' = Raw(ev)
    /\ out' = None
    /\ before' = None
    /\ after' = None
    /\ UNCHANGED <<clock, elapsed, panicked>>

\* $name::new(kind, value)
New(n, k, v) ==
    /\ ~panicked
    /\ val.t = "none"
    /\ val' = new(n, k, v)
    /\ arg' = [t |-> "args", by |-> "new", name |-> n, kind |-> k, value |-> v]
    /\ op' = "new"
    /\ origin' = arg'
    /\ out' = None
    /\ panicked' = (val'.t = "panic")
    /\ before' = None
    /\ after' = None
    /\ UNCHANGED <<clock, elapsed>>

\* $name::new_now(kind, value): the clock is sampled, d1 microseconds later the
\* constructor reads it once, d2 microseconds later the clock is sampled again
NewNow(n, k, v) ==
    /\ ~panicked
    /\ val.t = "none"
    /\ \E d1, d2 \in 0..MaxDelay :
         /\ elapsed + d1 + d2 <= MaxElapsed
         /\ before' = systime_to_timeval(clock)
         /\ val' = new_now(n, k, v, clock + d1)
         /\ clock' = clock + d1 + d2
         /\ elapsed' = elapsed + d1 + d2
         /\ after' = systime_to_timeval(clock + d1 + d2)
    /\ arg' = [t |-> "args", by |-> "new_now", name |-> n, kind |-> k, value |-> v]
    /\ op' = "new_now"
    /\ origin' = arg'
    /\ out' = None
    /\ panicked' = (val'.t = "panic")

\* EventSummary::from(event) on a RawEvent
Classify ==
    /\ ~panicked
    /\ val.t = "raw"
    /\ val' = classify(val.ev)
    /\ arg' = val
    /\ op' = "classify"
    /\ out' = None
    /\ panicked' = (val'.t = "panic")
    /\ before' = None
    /\ after' = None
    /\ UNCHANGED <<origin, clock, elapsed>>

\* matching on the EventSummary gives the wrapper its case holds
TakeWrapper ==
    /\ ~panicked
    /\ val.t = "summary"
    /\ val' = val.event
    /\ arg' = val
    /\ op' = "take"
    /\ out' = None
    /\ before' = None
    /\ after' = None
    /\ UNCHANGED <<origin, clock, elapsed, panicked>>

\* InputEvent::from(wrapper)
Widen ==
    /\ ~panicked
    /\ val.t = "wrapper"
    /\ val' = Raw(widen(val))
    /\ arg' = val
    /\ op' = "widen"
    /\ out' = None
    /\ before' = None
    /\ after' = None
    /\ UNCHANGED <<origin, clock, elapsed, panicked>>

\* EventSummary::from(wrapper)
ToSummary ==
    /\ ~panicked
    /\ val.t = "wrapper"
    /\ val' = SummaryOf(val)
    /\ arg' = val
    /\ op' = "to_summary"
    /\ out' = None
    /\ before' = None
    /\ after' = None
    /\ UNCHANGED <<origin, clock, elapsed, panicked>>

\* #[derive(Copy, Clone)]: the copy is the wrapper from here on
Copy ==
    /\ ~panicked
    /\ val.t = "wrapper"
    /\ val' = Wrap(val.name, val.ev)
    /\ arg' = val
    /\ op' = "copy"
    /\ out' = None
    /\ before' = None
    /\ after' = None
    /\ UNCHANGED <<origin, clock, elapsed, panicked>>

\* wrapper.kind()
CallKind ==
    /\ ~panicked
    /\ val.t = "wrapper"
    /\ out' = KindOf(val)
    /\ arg' = val
    /\ op' = "kind"
    /\ before' = None
    /\ after' = None
    /\ UNCHANGED <<val, origin, clock, elapsed, panicked>>

\* wrapper.destructure()
CallDestructure ==
    /\ ~panicked
    /\ val.t = "wrapper"
    /\ out' = DestructureOf(val)
    /\ arg' = val
    /\ op' = "destructure"
    /\ before' = None
    /\ after' = None
    /\ UNCHANGED <<val, origin, clock, elapsed, panicked>>

\* the application drops the value it holds; the next event starts afresh
Drop ==
    /\ ~panicked
    /\ val.t # "none"
    /\ val' = None
    /\ arg' = None
    /\ op' = "drop"
    /\ origin' = None
    /\ out' = None
    /\ before' = None
    /\ after' = None
    /\ UNCHANGED <<clock, elapsed, panicked>>

\* crate-internal code calls $name::from_event on the event at hand
FromEvent(n) ==
    /\ ~panicked
    /\ val.t = "raw"
    /\ val' = from_event(n, val.ev)
    /\ arg' = [t |-> "narrow", name |-> n, ev |-> val.ev]
    /\ op' = "from_event"
    /\ out' = None
    /\ panicked' = (val'.t = "panic")
    /\ before' = None
    /\ after' = None
    /\ UNCHANGED <<origin, clock, elapsed>>

\* the public API
Next ==
    \/ \E ev \in RawEvents : Receive(ev)
    \/ \E n \in Names : \E k \in KindsOf(n) : \E v \in Values : New(n, k, v)
    \/ \E n \in Names : \E k \in KindsOf(n) : \E v \in Values : NewNow(n, k, v)
    \/ Classify
    \/ TakeWrapper
    \/ Widen
    \/ ToSummary
    \/ Copy
    \/ CallKind
    \/ CallDestructure
    \/ Drop

Spec == Init /\ [][Next]_vars

\* construction, copying and widening, with the crate-internal narrowing called
\* on any event for any wrapper type
NextInternal ==
    \/ \E ev \in RawEvents : Receive(ev)
    \/ \E n \in Names : \E k \in KindsOf(n) : \E v \in Values : New(n, k, v)
    \/ \E n \in Names : \E k \in KindsOf(n) : \E v \in Values : NewNow(n, k, v)
    \/ \E n \in Names : FromEvent(n)
    \/ Widen
    \/ Copy
    \/ Drop

SpecInternal == Init /\ [][NextInternal]_vars

\* classification over the whole tag space
InitTotal ==
    /\ \E tg \in 0..MaxU16 :
         /\ val = Raw(InputEvent(ZeroTime, tg, 0, 0))
         /\ origin = val
    /\ arg = None
    /\ op = "receive"
    /\ out = None
    /\ clock = 0
    /\ elapsed = 0
    /\ before = None
    /\ after = None
    /\ panicked = FALSE

NextTotal == Classify

SpecTotal == InitTotal /\ [][NextTotal]_vars


(* ============================ properties =============================== *)

\* the thirteen classes of the specification, by the EventType each wrapper
\* type is documented with; a class and its EventSummary case share the name
ClassOfType ==
    [ SYNCHRONIZATION     |-> "Synchronization",
      KEY                 |-> "Key",
      RELATIVE            |-> "RelativeAxis",
      ABSOLUTE            |-> "AbsoluteAxis",
      MISC                |-> "Misc",
      SWITCH              |-> "Switch",
      LED                 |-> "Led",
      SOUND               |-> "Sound",
      REPEAT              |-> "Repeat",
      FORCEFEEDBACK       |-> "ForceFeedback",
      POWER               |-> "Power",
      FORCEFEEDBACKSTATUS |-> "ForceFeedbackStatus",
      UINPUT              |-> "UInput" ]

\* the class of a typed wrapper type
ClassOf(n) == ClassOfType[Invocation(n).evdev_type]

\* the classes that reserve tag tg
ClassesOfTag(tg) == { c \in DOMAIN EventTypeValue : EventTypeValue[c] = tg }

\* timestamps in time order
TvLeq(a, b) == a.tv_sec < b.tv_sec \/ (a.tv_sec = b.tv_sec /\ a.tv_usec <= b.tv_usec)

\* every wrapper the state holds: the value, the operand, the ones in summaries
WrappersHeld ==
    LET direct == { x \in {val, arg} : x.t = "wrapper" }
        held   == { x.event : x \in { y \in {val, arg} : y.t = "summary" } }
    IN  direct \cup held

\* C1: every typed wrapper that exists carries the tag reserved for its class,
\* and from_event called for class C on an event with another tag yields no
\* wrapper: it ends in unreachable!().
C1_TagInvariant ==
    /\ \A w \in WrappersHeld :
         w.name \in Names => w.ev.type_ = EventTypeValue[Invocation(w.name).evdev_type]
    /\ (op = "from_event" /\ arg.ev.type_ # EventTypeValue[Invocation(arg.name).evdev_type])
         => (val.t = "panic" /\ panicked)

\* the narrowing of a received event with a matching tag produced a wrapper
C1_Witness ==
    /\ op = "from_event"
    /\ val.t = "wrapper"
    /\ val.name = "UInputEvent"
    /\ val.ev.time # ZeroTime

\* C2: new(kind, value) returns, never through unreachable!(), a wrapper with the
\* zero timestamp, the tag of its class, the code of the kind and the value.
C2_NewResult ==
    op = "new" =>
        /\ ~panicked
        /\ val.t = "wrapper"
        /\ val.name = arg.name
        /\ val.ev.time.tv_sec = 0
        /\ val.ev.time.tv_usec = 0
        /\ val.ev.type_ = EventTypeValue[Invocation(arg.name).evdev_type]
        /\ val.ev.code = arg.kind.code
        /\ val.ev.value = arg.value

\* SynchronizationEvent::new with value 0 and a kind of non-zero code
C2_Witness ==
    /\ op = "new"
    /\ arg.name = "SynchronizationEvent"
    /\ arg.value = 0
    /\ arg.kind.code = 30
    /\ val.t = "wrapper"

\* C3: new(kind, value), widened and classified, is the case of its class with
\* the same kind and value, holding a wrapper with the zero timestamp.
C3_WidenRoundTrip ==
    (op = "classify" /\ origin.t = "args" /\ origin.by = "new") =>
        /\ val.t = "summary"
        /\ val.case = ClassOf(origin.name)
        /\ val.kind = origin.kind
        /\ val.value = origin.value
        /\ val.event.t = "wrapper"
        /\ val.event.name = origin.name
        /\ val.event.ev.time = [tv_sec |-> 0, tv_usec |-> 0]

\* a Key wrapper built by new, widened and classified
C3_Witness ==
    /\ op = "classify"
    /\ origin.t = "args"
    /\ origin.by = "new"
    /\ origin.name = "KeyEvent"
    /\ origin.kind.code = 30
    /\ origin.value = 1
    /\ val.t = "summary"
    /\ val.case = "Key"

\* C4: every 16-bit tag classifies to one case: the case of the one class that
\* reserves the tag, or Other when no class does; reserved tags are distinct.
C4_Totality ==
    /\ \A c1, c2 \in DOMAIN EventTypeValue :
         EventTypeValue[c1] = EventTypeValue[c2] => c1 = c2
    /\ Cardinality(DOMAIN EventTypeValue) = 13
    /\ op = "classify" =>
         /\ val.t = "summary"
         /\ Cardinality(ClassesOfTag(arg.ev.type_)) <= 1
         /\ \A c \in ClassesOfTag(arg.ev.type_) : val.case = ClassOfType[c]
         /\ ClassesOfTag(arg.ev.type_) = {} => val.case = "Other"

\* the largest tag was classified
C4_Witness ==
    /\ op = "classify"
    /\ arg.ev.type_ = MaxU16
    /\ val.t = "summary"
    /\ val.case = "Other"

\* C5: no sequence of public operations reaches unreachable!().
C5_NeverUnreachable ==
    /\ ~panicked
    /\ val.t # "panic"

\* a received event with a reserved tag and a non-zero time went through the
\* classifier's narrowing
C5_Witness ==
    /\ op = "classify"
    /\ origin.t = "raw"
    /\ arg.ev.time # ZeroTime
    /\ arg.ev.type_ = 23
    /\ val.t = "summary"
    /\ val.event.name = "FFStatusEvent"

\* C6: an event whose tag no class reserves classifies to Other, holding the
\* event unchanged, the (tag, code) pair as kind and the value.
C6_OtherLossless ==
    (op = "classify" /\ ClassesOfTag(arg.ev.type_) = {}) =>
        /\ val.t = "summary"
        /\ val.case = "Other"
        /\ val.event = [t |-> "wrapper", name |-> "OtherEvent", ev |-> arg.ev]
        /\ val.kind = [kind |-> "OtherType", type_ |-> arg.ev.type_, code |-> arg.ev.code]
        /\ val.value = arg.ev.value

\* tag 9999, code 5, value 0
C6_Witness ==
    /\ op = "classify"
    /\ arg.ev.type_ = 9999
    /\ arg.ev.code = 5
    /\ arg.ev.value = 0
    /\ val.t = "summary"
    /\ val.case = "Other"

\* C7: widening returns the four fields of the wrapper, and whatever was done
\* with a received event before, the widened event is the received one.
C7_WidenLossless ==
    op = "widen" =>
        /\ val.t = "raw"
        /\ val.ev.time = arg.ev.time
        /\ val.ev.type_ = arg.ev.type_
        /\ val.ev.code = arg.ev.code
        /\ val.ev.value = arg.ev.value
        /\ origin.t = "raw" => val.ev = origin.ev

\* a received Key event with a non-zero time, classified, taken and widened
C7_Witness ==
    /\ op = "widen"
    /\ origin.t = "raw"
    /\ arg.name = "KeyEvent"
    /\ val.ev.time # ZeroTime
    /\ val.ev.value = MaxI32

\* the kind rebuilt from what wrapper w stores
StoredKind(w) ==
    IF w.name = "OtherEvent"
    THEN [kind |-> "OtherType", type_ |-> w.ev.type_, code |-> w.ev.code]
    ELSE [kind |-> Invocation(w.name).kind, code |-> w.ev.code]

\* C8: destructure() is the pair of kind() and the value, kind() is rebuilt from
\* the stored code (and tag, for OtherEvent), and both leave the wrapper as it is.
C8_DestructureRoundTrip ==
    /\ op = "destructure" =>
         /\ val = arg
         /\ out = <<KindOf(val), val.ev.value>>
         /\ out[1] = StoredKind(val)
    /\ op = "kind" =>
         /\ val = arg
         /\ out = StoredKind(val)

\* a Key wrapper with code 30 and value 1 was destructured
C8_Witness ==
    /\ op = "destructure"
    /\ val.name = "KeyEvent"
    /\ val.ev.code = 30
    /\ val.ev.value = 1

C10_SummaryConsistent ==
    val.t = "summary" =>
        /\ val.event.t = "wrapper"
        /\ val.case = (IF val.event.name = "OtherEvent" THEN "Other" ELSE ClassOf(val.event.name))
        /\ val.kind = StoredKind(val.event)
        /\ val.value = val.event.ev.value

\* a wrapper built by new_now was converted to its summary
C10_Witness ==
    /\ op = "to_summary"
    /\ val.t = "summary"
    /\ val.case = "RelativeAxis"
    /\ val.kind.code = 5
    /\ val.value = -1
    /\ val.event.ev.time # ZeroTime

====
